---- MODULE Spec2Model ----
(***************************************************************************)
(* Session Runtime (createClawatchRuntime) and Connector                   *)
(* (ClawatchConnector) of openclaw-clawatch, as a state machine.           *)
(*                                                                         *)
(* One action is one event-loop task: a caller's API call, a transport     *)
(* event (open / message / error / close), a timer callback, or the        *)
(* completion of the injected inbound-message handler.  The promise        *)
(* continuations a task triggers (the catch blocks of doConnect and        *)
(* attemptReconnect) run as microtasks before the next task and are part   *)
(* of the same action.                                                     *)
(*                                                                         *)
(* Every ClawatchConnector calls connect() once (doConnect constructs it   *)
(* and connects it), so it owns at most one WebSocket: connector c and its *)
(* transport share the index c.                                            *)
(***************************************************************************)
EXTENDS Integers, Sequences, FiniteSets, TLC

\* ---- bounds of the model ------------------------------------------------
MaxConn == 3        \* ClawatchConnector objects constructed in one run
MaxFrameConn == 2   \* ... in a run of the specifications with every frame kind
MaxWire == 2        \* frames sent on one transport
MaxMsg == 1         \* inbound Message frames delivered in one run
MaxMsgPair == 2     \* ... in a run of the specification of concurrent handlers
MaxWireLong == 3    \* frames sent on one transport in such a run
MaxSplits == 2      \* places at which a streamed body is cut into chunks
MaxId == 3          \* correlation ids sendControl generates in one run
MaxAttempts == 10   \* values of reconnectAttempts the delay is computed for

\* ---- program constants --------------------------------------------------
baseReconnectMs == 1000
maxReconnectMs == 300000
maxReconnectAttempts == 0
ManualReconnectMs == 1000
RetryMs == 2000
ConnectTimeoutMs == 15000
PingIntervalMs == 45000
ImeiLen == 15

\* ---- value sets ---------------------------------------------------------
Imeis == {"860000035452456", "860000035452457"}
Texts == {"hello"}
ReplyTexts == {"hi there"}
ErrMsgs == {"boom"}
ErrorCodes == {"invalid_token", "unauthorized", "rate_limited", "none"}
NoWatches == <<"undefined">>
WatchLists ==
    {<<>>, <<"860000035452456">>, <<"860000035452456", "860000035452457">>}
Conns == 1..MaxConn
\* the calls of sendControl the plugin makes: action and params
ControlCalls ==
    {<<"set_interval", "intervalSec">>, <<"unpair", "">>, <<"get_config", "">>}
\* the IMEIs they name: a paired watch's, or whatever the caller typed
ControlImeis == {"860000035452456", "12345"}
\* values of config.sessionKeyPrefix
Prefixes == {"clawatch:", "watch:", "w:"}
\* strings offered as an IMEI: two IMEIs, and strings that are none
ImeiStrings ==
    Imeis \cup {"", "12345", "86000003545245", "8600000354524567",
                "86000003545245x", "x60000035452456", "8600000 5452456",
                "imei", "860000035452456\n", "-86000003545245"}
\* values of ctx.sessionKey that no getSessionKey call produced
RawKeys ==
    {"clawatch:", "session:", "session:clawatch:", "clawatch:session:860000035452456",
     "telegram:860000035452456", "Clawatch:860000035452456",
     "clawatch:860000035452456:1", "session:session:clawatch:860000035452456"}
NULL == 0
\* the mediaUrl of a sendMedia call: absent, or a link
MediaUrls == {"", "https://example.org/a.png"}

VARIABLES
    \* configuration (fixed at construction)
    apiToken,           \* config.apiToken is set
    urlOk,              \* new WebSocket(wsUrl) does not throw
    connLimit,          \* connectors a run of this specification constructs
    msgLimit,           \* Message frames a run of this specification delivers
    wireLimit,          \* frames a run of this specification sends on a transport
    \* createClawatchRuntime closure
    connector,          \* current ClawatchConnector, NULL if none
    pairedWatches,      \* sequence of IMEIs
    disconnecting,
    sessionKeyToImei,   \* function: session key -> IMEI
    \* the caller of the runtime (the plugin service)
    started,            \* connect() was called and disconnect() not since
    \* ClawatchConnector objects, by index
    nConn,              \* connectors constructed so far
    ws,                 \* this.ws # null
    readyState,         \* readyState of the WebSocket the connector made
    abortPending,       \* close() was called before the socket opened: the
                        \* platform may still report an error for it
    pingInterval,       \* this.pingInterval # null
    reconnectAttempts,
    promise,            \* state of the promise connect() returned
    timeout,            \* the 15 s connect timeout is pending
    origin,             \* who awaits the promise: "connect" | "reconnect"
    \* timers pending in the event loop
    reconnectTimer,     \* per connector: delay of the scheduleReconnect timer, 0 if none
    manualTimers,       \* pending doConnect fallback timers (1000 ms)
    retryTimers,        \* pending attemptReconnect retry timers (2000 ms)
    \* the wire and the injected handler
    wire,               \* per transport: the frames sent on it, in order
    handlers,           \* pending onInboundMessage calls
    nMsg,               \* Message frames delivered so far (their ids are 1..nMsg)
    nextId,             \* correlation ids generated so far
    \* the plugin's tool factory (index.ts)
    toolCtx,            \* ctx.sessionKey of the latest run and the IMEI parsed from it
    gw,                 \* the chatCompletion call in progress (gateway.ts)
    \* observation
    ev                  \* the task that ran last, with what it sent and called back

cfgVars == <<apiToken, urlOk, connLimit, msgLimit, wireLimit>>
rtVars == <<connector, pairedWatches, disconnecting, sessionKeyToImei, started>>
connVars == <<nConn, ws, readyState, abortPending, pingInterval, reconnectAttempts,
              promise, timeout, origin>>
timerVars == <<reconnectTimer, manualTimers, retryTimers>>
ioVars == <<wire, handlers, nMsg, nextId>>
vars == <<cfgVars, rtVars, connVars, timerVars, ioVars, toolCtx, gw, ev>>

\* ---- frames -------------------------------------------------------------
OutFrame(type, id, imei, text, code) ==
    [type |-> type, id |-> id, imei |-> imei, text |-> text, code |-> code]
\* a register frame that carries no token
RegisterFrame_anonymous == OutFrame("register", 0, "", "", "")
\* {type: "register", token: this.apiToken, client, version}
RegisterFrame == OutFrame("register", 0, "", "token", "")
PingFrame == OutFrame("ping", 0, "", "", "")
ReplyFrame(id, text) == OutFrame("reply", id, "", text, "done")
AgentErrorFrame(id, msg) == OutFrame("error", id, "", msg, "agent_error")
PushFrame(id, imei, text) == OutFrame("push", id, imei, text, "")
\* {type: "control", id, action, imei, params}
ControlFrame(id, action, imei, params) == OutFrame("control", id, imei, params, action)

InFrame(type, id, imei, text, code, watches) ==
    [type |-> type, id |-> id, imei |-> imei, text |-> text, code |-> code,
     watches |-> watches]
NoFrame == InFrame("", 0, "", "", "", <<>>)
\* the payloads the server can put on the wire; "garbage" is not JSON
Payloads ==
    {InFrame("registered", 0, "", "", "", w) : w \in WatchLists \cup {NoWatches}}
    \cup {InFrame("error", 0, "", "server says", c, <<>>) : c \in ErrorCodes}
    \cup {InFrame("unbound", 0, i, "", "", <<>>) : i \in Imeis}
    \cup {InFrame(t, 0, "", "", "", <<>>) :
            t \in {"pong", "control_ack", "future_kind", "json_number", "garbage"}}
MessageFrame(id, imei, text) == InFrame("message", id, imei, text, "", <<>>)

\* ---- session keys (config.ts) -------------------------------------------
\* config.sessionKeyPrefix ?? "watch:" in handleInboundMessage
sessionKeyPrefix == "watch:"
\* `${prefix}${imei}`
getSessionKey(prefix, imei) == prefix \o imei
\* `session:${sessionKey}`
SessionAlias(key) == "session:" \o key
Digits == {"0", "1", "2", "3", "4", "5", "6", "7", "8", "9"}
\* /^\d{15}$/.test(s)
IsImei(s) ==
    /\ Len(s) = ImeiLen
    /\ \A k \in 1..ImeiLen : SubSeq(s, k, k) \in Digits
\* s.startsWith(pre)
StartsWith(s, pre) == Len(s) >= Len(pre) /\ SubSeq(s, 1, Len(pre)) = pre
\* s without its first n characters
Drop(s, n) == SubSeq(s, n + 1, Len(s))
\* parseImeiFromSessionKey: sessionKey.match(/^(?:session:)?clawatch:(\d{15})$/)
parseImeiFromSessionKey(sessionKey) ==
    LET bare == IF StartsWith(sessionKey, "session:")
                THEN Drop(sessionKey, Len("session:"))
                ELSE sessionKey
    IN IF StartsWith(bare, "clawatch:") /\ IsImei(Drop(bare, Len("clawatch:")))
       THEN Drop(bare, Len("clawatch:"))
       ELSE "null"

\* ---- pure helpers -------------------------------------------------------
Min(a, b) == IF a < b THEN a ELSE b
RECURSIVE Pow2(_)
Pow2(n) == IF n = 0 THEN 1 ELSE 2 * Pow2(n - 1)
\* an onUnbound that removes nothing
FilterOut_keep(s, imei) == s
\* an onUnbound that empties the roster
FilterOut_all(s, imei) == <<>>
\* pairedWatches.filter((w) => w.imei !== imei)
RECURSIVE FilterOut(_, _)
FilterOut(s, imei) ==
    IF s = <<>> THEN <<>>
    ELSE IF Head(s) = imei THEN FilterOut(Tail(s), imei)
    ELSE <<Head(s)>> \o FilterOut(Tail(s), imei)
Contains(s, x) == \E k \in 1..Len(s) : s[k] = x

\* an isConnected that only tests that the connector holds a transport
ConnIsConnected_handle(c) == ws[c]
\* ClawatchConnector.isConnected, on the current values of ws / readyState
ConnIsConnected(c) == ws[c] /\ readyState[c] = "OPEN"
\* runtime.isConnected: connector?.isConnected() ?? false
isConnected == connector # NULL /\ ConnIsConnected(connector)
\* runtime.getPairedWatches
getPairedWatches == pairedWatches
\* runtime.getImeiFromSessionKey
getImeiFromSessionKey(key) ==
    IF key \in DOMAIN sessionKeyToImei THEN sessionKeyToImei[key] ELSE "null"

\* a callback of connectorCallbacks that a task invoked
Cb(name, code) == [name |-> name, code |-> code]
\* the record of a task: its kind, the callbacks it invoked, its outcome,
\* the connector whose transport delivered the latest Registered frame, and
\* the delay scheduleReconnect chose at the latest close since that frame
Event(type, c, frame, sent, cbs, result) ==
    [type |-> type, cbs |-> cbs, result |-> result,
     regOn |-> IF type = "frame" /\ cbs = <<Cb("onRegistered", "")>> THEN c
               ELSE IF type = "disconnect" THEN NULL
               ELSE ev.regOn,
     streak |-> IF type = "frame" /\ cbs = <<Cb("onRegistered", "")>> THEN 0
                ELSE IF type = "close" /\ reconnectTimer'[c] > 0
                THEN reconnectTimer'[c]
                ELSE ev.streak]

\* no chatCompletion call has been made
GwIdle ==
    [phase |-> "idle", responses |-> <<>>, expected |-> "", i |-> 0,
     fetched |-> <<>>, lastError |-> "", rest |-> <<>>, buffer |-> "",
     content |-> "", result |-> ""]

InitWith(limit, msgs, frames) ==
    /\ connLimit = limit
    /\ msgLimit = msgs
    /\ wireLimit = frames
    /\ apiToken \in BOOLEAN
    /\ urlOk \in BOOLEAN
    /\ connector = NULL
    /\ pairedWatches = <<>>
    /\ disconnecting = FALSE
    /\ sessionKeyToImei = <<>>
    /\ started = FALSE
    /\ nConn = 0
    /\ ws = [c \in Conns |-> FALSE]
    /\ readyState = [c \in Conns |-> "NONE"]
    /\ abortPending = [c \in Conns |-> FALSE]
    /\ pingInterval = [c \in Conns |-> FALSE]
    /\ reconnectAttempts = [c \in Conns |-> 0]
    /\ promise = [c \in Conns |-> "none"]
    /\ timeout = [c \in Conns |-> FALSE]
    /\ origin = [c \in Conns |-> "none"]
    /\ reconnectTimer = [c \in Conns |-> 0]
    /\ manualTimers = 0
    /\ retryTimers = 0
    /\ wire = [c \in Conns |-> <<>>]
    /\ handlers = {}
    /\ nMsg = 0
    /\ nextId = 0
    /\ toolCtx = [sessionKey |-> "", sessionImei |-> "null"]
    /\ gw = GwIdle
    /\ ev = [type |-> "init", cbs |-> <<>>, result |-> "", regOn |-> NULL, streak |-> 0]

InitOf(limit) == InitWith(limit, MaxMsg, MaxWire)

\* ---- ClawatchConnector --------------------------------------------------
\* a send that writes whatever the state of the transport
send_always(c, frame) == [wire EXCEPT ![c] = Append(@, frame)]
\* the wire after ClawatchConnector.send(frame) on connector c
send(c, frame) ==
    IF ws[c] /\ readyState[c] = "OPEN"
    THEN [wire EXCEPT ![c] = Append(@, frame)]
    ELSE wire
\* what that call put on the wire
Sent(c, frame) ==
    IF ws[c] /\ readyState[c] = "OPEN"
    THEN <<[conn |-> c, frame |-> frame]>>
    ELSE <<>>
\* room left on the wire of c for one more frame (bound of the model)
WireRoom(c) == Len(wire[c]) < wireLimit

\* clearTimeout(timeout)
clearTimeout(c) ==
    [timeout EXCEPT ![c] = FALSE]
\* stopPing
stopPing(c) == [pingInterval EXCEPT ![c] = FALSE]
\* a startPing that sets no interval
startPing_never(c) == pingInterval
\* startPing: stopPing, then setInterval
startPing(c) == [pingInterval EXCEPT ![c] = TRUE]
\* a backoff that starts one step late
ReconnectDelay_late(attempts) ==
    Min(baseReconnectMs * Pow2(attempts + 1), maxReconnectMs)
\* the delay scheduleReconnect computes
ReconnectDelay(attempts) ==
    Min(baseReconnectMs * Pow2(attempts), maxReconnectMs)
\* WebSocket.close(): a socket that is connecting or open starts closing
CloseSocket(c) ==
    [readyState EXCEPT ![c] =
        IF @ \in {"CONNECTING", "OPEN"} THEN "CLOSING" ELSE @]
\* ... and one closed before it opened may still report an error
AbortSocket(c) ==
    [abortPending EXCEPT ![c] = @ \/ readyState[c] = "CONNECTING"]

\* reject(...) of the promise of connector c settles it only if it is pending
Rejects(c) == promise[c] = "pending"
\* doConnect's catch block, run when connect() of some connector rejects:
\* the number of manual fallback timers it sets
CatchManual(disc, conn) == IF ~disc /\ conn # NULL THEN 1 ELSE 0
\* attemptReconnect's catch block: the number of retry timers it sets
CatchRetry(org, disc) == IF org = "reconnect" /\ ~disc THEN 1 ELSE 0

\* the timers after the promise of connector c was rejected (if it was
\* pending) in a task that leaves disconnecting and connector as they are
TimersAfterReject(c) ==
    /\ manualTimers' = manualTimers +
          (IF Rejects(c) THEN CatchManual(disconnecting, connector) ELSE 0)
    /\ retryTimers' = retryTimers +
          (IF Rejects(c) THEN CatchRetry(origin[c], disconnecting) ELSE 0)
    /\ UNCHANGED reconnectTimer

\* new ClawatchConnector(...) followed by connector.connect(), in doConnect
NewConnector(c, org) ==
    /\ nConn' = c
    /\ origin' = [origin EXCEPT ![c] = org]
    /\ IF urlOk
       THEN /\ ws' = [ws EXCEPT ![c] = TRUE]
            /\ readyState' = [readyState EXCEPT ![c] = "CONNECTING"]
            /\ timeout' = [timeout EXCEPT ![c] = TRUE]
            /\ promise' = [promise EXCEPT ![c] = "pending"]
       ELSE /\ promise' = [promise EXCEPT ![c] = "rejected"]
            /\ UNCHANGED <<ws, readyState, timeout>>
    /\ UNCHANGED <<abortPending, pingInterval, reconnectAttempts>>

\* ---- Session Runtime ----------------------------------------------------
\* an attemptReconnect that always returns at once
HookDisabled_always == TRUE
\* an attemptReconnect that does not look at the flag
HookDisabled_never == FALSE
\* the first line of attemptReconnect: if (disconnecting) return
HookDisabled == disconnecting

\* attemptReconnect, called from a timer; dM and dK account for the timer
\* that fired
attemptReconnect(label, src, dM, dK) ==
    IF HookDisabled
    THEN /\ UNCHANGED <<rtVars, connVars>>
         /\ manualTimers' = manualTimers + dM
         /\ retryTimers' = retryTimers + dK
         /\ ev' = Event(label, src, NoFrame, <<>>, <<>>, "noop")
    ELSE IF ~apiToken
    THEN /\ connector' = NULL
         /\ UNCHANGED <<pairedWatches, disconnecting, sessionKeyToImei, started>>
         /\ UNCHANGED connVars
         /\ manualTimers' = manualTimers + dM
         /\ retryTimers' = retryTimers + dK + 1
         /\ ev' = Event(label, src, NoFrame, <<>>, <<>>, "no_token")
    ELSE /\ nConn < connLimit
         /\ connector' = nConn + 1
         /\ UNCHANGED <<pairedWatches, disconnecting, sessionKeyToImei, started>>
         /\ NewConnector(nConn + 1, "reconnect")
         /\ manualTimers' = manualTimers + dM + (IF urlOk THEN 0 ELSE 1)
         /\ retryTimers' = retryTimers + dK + (IF urlOk THEN 0 ELSE 1)
         /\ ev' = Event(label, src, NoFrame, <<>>, <<>>,
                        IF urlOk THEN "created" ELSE "construct_failed")

\* runtime.connect()
connect ==
    /\ ~started
    /\ started' = TRUE
    /\ disconnecting' = FALSE
    /\ UNCHANGED <<pairedWatches, sessionKeyToImei>>
    /\ UNCHANGED <<cfgVars, toolCtx, gw, ioVars, reconnectTimer, retryTimers>>
    /\ IF ~apiToken
       THEN /\ UNCHANGED <<connector, connVars, manualTimers>>
            /\ ev' = Event("connect", NULL, NoFrame, <<>>, <<>>, "no_token")
       ELSE /\ nConn < connLimit
            /\ connector' = nConn + 1
            /\ NewConnector(nConn + 1, "connect")
            /\ manualTimers' = manualTimers + (IF urlOk THEN 0 ELSE 1)
            /\ ev' = Event("connect", nConn + 1, NoFrame, <<>>, <<>>,
                           IF urlOk THEN "pending" ELSE "construct_failed")

\* a ClawatchConnector.disconnect() that stops the heartbeat and leaves the
\* socket alone
ConnectorDisconnect_noclose(c) ==
    /\ pingInterval' = stopPing(c)
    /\ UNCHANGED <<readyState, abortPending, ws>>
\* ClawatchConnector.disconnect() of connector c
ConnectorDisconnect(c) ==
    /\ pingInterval' = stopPing(c)
    /\ readyState' = IF ws[c] THEN CloseSocket(c) ELSE readyState
    /\ abortPending' = IF ws[c] THEN AbortSocket(c) ELSE abortPending
    /\ ws' = [ws EXCEPT ![c] = FALSE]

\* runtime.disconnect()
disconnect ==
    /\ disconnecting' = TRUE
    /\ started' = FALSE
    /\ connector' = NULL
    /\ pairedWatches' = <<>>
    /\ sessionKeyToImei' = <<>>
    /\ IF connector # NULL
       THEN ConnectorDisconnect(connector)
       ELSE UNCHANGED <<pingInterval, readyState, abortPending, ws>>
    /\ UNCHANGED <<nConn, reconnectAttempts, promise, timeout, origin>>
    /\ UNCHANGED <<cfgVars, toolCtx, gw, timerVars, ioVars>>
    /\ ev' = Event("disconnect", connector, NoFrame, <<>>, <<>>,
                   IF ev.type = "disconnect" THEN "again" ELSE "ok")

\* ---- transport events ---------------------------------------------------
\* ws.onopen
TransportOpen(c) ==
    /\ readyState[c] = "CONNECTING"
    /\ readyState' = [readyState EXCEPT ![c] = "OPEN"]
    /\ timeout' = clearTimeout(c)
    /\ reconnectAttempts' = [reconnectAttempts EXCEPT ![c] = 0]
    /\ wire' = IF ws[c] THEN [wire EXCEPT ![c] = Append(@, RegisterFrame)]
               ELSE wire
    /\ UNCHANGED <<nConn, ws, abortPending, pingInterval, promise, origin>>
    /\ UNCHANGED <<cfgVars, toolCtx, gw, rtVars, timerVars, handlers, nMsg, nextId>>
    /\ ev' = Event("open", c, NoFrame,
                   IF ws[c] THEN <<[conn |-> c, frame |-> RegisterFrame]>>
                   ELSE <<>>, <<>>, "")

\* ws.onerror: the connection failed, or close() was called on a socket
\* that had not opened yet (the platform then may report an error)
TransportError(c) ==
    /\ \/ readyState[c] \in {"CONNECTING", "OPEN"}
       \/ readyState[c] = "CLOSING" /\ abortPending[c]
    /\ abortPending' = [abortPending EXCEPT ![c] = FALSE]
    /\ readyState' = CloseSocket(c)
    /\ timeout' = clearTimeout(c)
    /\ promise' = [promise EXCEPT ![c] = IF Rejects(c) THEN "rejected" ELSE @]
    /\ TimersAfterReject(c)
    /\ UNCHANGED <<nConn, ws, pingInterval, reconnectAttempts, origin>>
    /\ UNCHANGED <<cfgVars, toolCtx, gw, rtVars, ioVars>>
    /\ ev' = Event("error", c, NoFrame, <<>>, <<>>,
                   IF Rejects(c) THEN "rejected" ELSE "")

\* ws.onclose, with scheduleReconnect(this.callbacks.onReconnect)
TransportClose(c) ==
    /\ readyState[c] \in {"OPEN", "CLOSING"}
    /\ readyState' = [readyState EXCEPT ![c] = "CLOSED"]
    /\ pingInterval' = stopPing(c)
    /\ ws' = [ws EXCEPT ![c] = FALSE]
    /\ IF maxReconnectAttempts > 0 /\ reconnectAttempts[c] >= maxReconnectAttempts
       THEN UNCHANGED <<reconnectAttempts, reconnectTimer>>
       ELSE /\ reconnectTimer' =
                [reconnectTimer EXCEPT ![c] = ReconnectDelay(reconnectAttempts[c])]
            /\ reconnectAttempts' = [reconnectAttempts EXCEPT ![c] = @ + 1]
    /\ abortPending' = [abortPending EXCEPT ![c] = FALSE]
    /\ UNCHANGED <<nConn, promise, timeout, origin>>
    /\ UNCHANGED <<cfgVars, toolCtx, gw, rtVars, manualTimers, retryTimers, ioVars>>
    /\ ev' = Event("close", c, NoFrame, <<>>, <<>>, "")

\* ---- timers -------------------------------------------------------------
\* the 15 s timeout set by ClawatchConnector.connect
ConnectTimeout(c) ==
    /\ timeout[c]
    /\ timeout' = [timeout EXCEPT ![c] = FALSE]
    /\ IF ws[c] /\ readyState[c] = "CONNECTING"
       THEN /\ readyState' = CloseSocket(c)
            /\ abortPending' = AbortSocket(c)
            /\ promise' = [promise EXCEPT ![c] =
                              IF Rejects(c) THEN "rejected" ELSE @]
            /\ TimersAfterReject(c)
            /\ ev' = Event("timeout", c, NoFrame, <<>>, <<>>,
                           IF Rejects(c) THEN "rejected" ELSE "")
       ELSE /\ UNCHANGED <<readyState, abortPending, promise, timerVars>>
            /\ ev' = Event("timeout", c, NoFrame, <<>>, <<>>, "noop")
    /\ UNCHANGED <<nConn, ws, pingInterval, reconnectAttempts, origin>>
    /\ UNCHANGED <<cfgVars, toolCtx, gw, rtVars, ioVars>>

\* setTimeout(onReconnect, delay) of scheduleReconnect fires
ReconnectTimerFires(c) ==
    /\ reconnectTimer[c] > 0
    /\ reconnectTimer' = [reconnectTimer EXCEPT ![c] = 0]
    /\ attemptReconnect("reconnect_timer", c, 0, 0)
    /\ UNCHANGED <<cfgVars, toolCtx, gw, ioVars>>

\* the 1000 ms fallback timer of doConnect's catch block fires
ManualTimerFires ==
    /\ manualTimers > 0
    /\ UNCHANGED <<cfgVars, toolCtx, gw, ioVars, reconnectTimer>>
    /\ IF ~disconnecting /\ connector # NULL /\ ~ConnIsConnected(connector)
       THEN attemptReconnect("manual_timer", NULL, -1, 0)
       ELSE /\ manualTimers' = manualTimers - 1
            /\ UNCHANGED <<rtVars, connVars, retryTimers>>
            /\ ev' = Event("manual_timer", NULL, NoFrame, <<>>, <<>>, "noop")

\* the 2000 ms retry timer of attemptReconnect's catch block fires
RetryTimerFires ==
    /\ retryTimers > 0
    /\ UNCHANGED <<cfgVars, toolCtx, gw, ioVars, reconnectTimer>>
    /\ IF ~disconnecting
       THEN attemptReconnect("retry_timer", NULL, 0, -1)
       ELSE /\ retryTimers' = retryTimers - 1
            /\ UNCHANGED <<rtVars, connVars, manualTimers>>
            /\ ev' = Event("retry_timer", NULL, NoFrame, <<>>, <<>>, "noop")

\* the 45 s interval set by startPing fires
PingTick(c) ==
    /\ pingInterval[c]
    /\ WireRoom(c)
    /\ wire' = send(c, PingFrame)
    /\ UNCHANGED <<cfgVars, toolCtx, gw, rtVars, connVars, timerVars, handlers, nMsg, nextId>>
    /\ ev' = Event("ping_tick", c, NoFrame, Sent(c, PingFrame), <<>>, "")

\* ---- inbound frames -----------------------------------------------------
\* a wrapped onError that rejects on every Error frame
IsFatal_all(code) == TRUE
\* the codes on which the wrapped onError rejects connect()
IsFatal(code) == code \in {"invalid_token", "unauthorized"}

\* a payload that is not JSON
GarbagePayload == InFrame("garbage", 0, "", "", "", <<>>)
\* a payload that parses to a JSON value that is not an object, such as 42:
\* its .type is undefined, so handleFrame takes the default branch
NumberPayload == InFrame("json_number", 0, "", "", "", <<>>)
\* a frame whose type tag is none of the protocol's
UnknownPayload == InFrame("future_kind", 0, "", "", "", <<>>)
\* a default branch that reports the frame as an error
UnknownTypeCbs_error == <<Cb("onError", "invalid_frame")>>
\* default: onDebug("unknown frame type")
UnknownTypeCbs == <<Cb("onDebug", "")>>
\* a catch block that reports the payload twice
InvalidJsonCbs_twice ==
    <<Cb("onError", "invalid_frame"), Cb("onError", "invalid_frame")>>
\* the catch block of ws.onmessage: this.callbacks.onError("invalid_frame", ...)
InvalidJsonCbs == <<Cb("onError", "invalid_frame")>>

\* ws.onmessage with handleFrame, for every payload but a Message frame
Receive(c, p) ==
    /\ readyState[c] = "OPEN"
    /\ UNCHANGED <<cfgVars, toolCtx, gw, ioVars>>
    /\ UNCHANGED <<connector, disconnecting, sessionKeyToImei, started>>
    /\ UNCHANGED <<nConn, ws, readyState, abortPending, reconnectAttempts, origin>>
    /\ CASE p.type = "registered" /\ p.watches # NoWatches ->
              \* wrapped onRegistered: clearTimeout, startPing, original, resolve
              /\ timeout' = clearTimeout(c)
              /\ pingInterval' = startPing(c)
              /\ pairedWatches' = p.watches
              /\ promise' = [promise EXCEPT ![c] =
                                IF @ = "pending" THEN "resolved" ELSE @]
              /\ UNCHANGED timerVars
              /\ ev' = Event("frame", c, p, <<>>, <<Cb("onRegistered", "")>>,
                             IF promise[c] = "pending" THEN "resolved" ELSE "")
           [] p.type = "registered" /\ p.watches = NoWatches ->
              \* watches.map throws after startPing; onmessage catches it
              /\ timeout' = clearTimeout(c)
              /\ pingInterval' = startPing(c)
              /\ UNCHANGED <<pairedWatches, promise, timerVars>>
              /\ ev' = Event("frame", c, p, <<>>,
                             <<Cb("onRegistered", ""), Cb("onError", "invalid_frame")>>,
                             "")
           [] p.type = "error" ->
              \* wrapped onError: clearTimeout, original, reject if fatal
              /\ timeout' = clearTimeout(c)
              /\ UNCHANGED <<pairedWatches, pingInterval>>
              /\ IF IsFatal(p.code)
                 THEN /\ promise' = [promise EXCEPT ![c] =
                                        IF Rejects(c) THEN "rejected" ELSE @]
                      /\ TimersAfterReject(c)
                      /\ ev' = Event("frame", c, p, <<>>, <<Cb("onError", p.code)>>,
                                     IF Rejects(c) THEN "rejected" ELSE "")
                 ELSE /\ UNCHANGED <<promise, timerVars>>
                      /\ ev' = Event("frame", c, p, <<>>, <<Cb("onError", p.code)>>, "")
           [] p.type = "garbage" ->
              \* JSON.parse throws: onError("invalid_frame", ...)
              /\ timeout' = clearTimeout(c)
              /\ UNCHANGED <<pairedWatches, pingInterval, promise, timerVars>>
              /\ ev' = Event("frame", c, p, <<>>, InvalidJsonCbs, "")
           [] p.type = "unbound" ->
              /\ pairedWatches' = FilterOut(pairedWatches, p.imei)
              /\ UNCHANGED <<timeout, pingInterval, promise, timerVars>>
              /\ ev' = Event("frame", c, p, <<>>, <<Cb("onUnbound", "")>>, "")
           [] p.type = "pong" ->
              /\ UNCHANGED <<pairedWatches, timeout, pingInterval, promise, timerVars>>
              /\ ev' = Event("frame", c, p, <<>>, <<Cb("onPong", "")>>, "")
           [] p.type = "control_ack" ->
              \* the runtime passes no onControlAck
              /\ UNCHANGED <<pairedWatches, timeout, pingInterval, promise, timerVars>>
              /\ ev' = Event("frame", c, p, <<>>, <<>>, "")
           [] OTHER ->
              \* unknown type tag, or no type tag at all: onDebug only
              /\ UNCHANGED <<pairedWatches, timeout, pingInterval, promise, timerVars>>
              /\ ev' = Event("frame", c, p, <<>>, UnknownTypeCbs, "")

\* a pending call of the injected onInboundMessage
\* a handler that answers every message under the first message's id
Handler_sameid(id, imei, c) == [id |-> 1, imei |-> imei, conn |-> c]
Handler(id, imei, c) == [id |-> id, imei |-> imei, conn |-> c]

\* ws.onmessage with a Message frame: handleFrame, then handleInboundMessage
ReceiveMessage(c, imei, text) ==
    /\ readyState[c] = "OPEN"
    /\ nMsg < msgLimit
    /\ nMsg' = nMsg + 1
    /\ LET key == getSessionKey(sessionKeyPrefix, imei)
           keys == {key, SessionAlias(key)}
       IN sessionKeyToImei' =
              [k \in DOMAIN sessionKeyToImei \cup keys |->
                  IF k \in keys THEN imei ELSE sessionKeyToImei[k]]
    /\ handlers' = handlers \cup {Handler(nMsg + 1, imei, c)}
    /\ UNCHANGED <<connector, pairedWatches, disconnecting, started>>
    /\ UNCHANGED <<cfgVars, toolCtx, gw, connVars, timerVars, wire, nextId>>
    /\ ev' = Event("frame", c, MessageFrame(nMsg + 1, imei, text), <<>>,
                   <<Cb("onDebug", ""), Cb("onMessage", "")>>, "")

\* the handler's promise resolves with replyText: connector?.send(reply)
HandlerResolves(h, replyText) ==
    /\ h \in handlers
    /\ handlers' = handlers \ {h}
    /\ IF connector # NULL
       THEN /\ WireRoom(connector)
            /\ wire' = send(connector, ReplyFrame(h.id, replyText))
            /\ ev' = Event("handler_resolved", h.conn, MessageFrame(h.id, h.imei, ""),
                           Sent(connector, ReplyFrame(h.id, replyText)), <<>>, replyText)
       ELSE /\ UNCHANGED wire
            /\ ev' = Event("handler_resolved", h.conn, MessageFrame(h.id, h.imei, ""),
                           <<>>, <<>>, replyText)
    /\ UNCHANGED <<cfgVars, toolCtx, gw, rtVars, connVars, timerVars, nMsg, nextId>>

\* the handler's promise rejects with message errMsg: connector?.send(error)
HandlerRejects(h, errMsg) ==
    /\ h \in handlers
    /\ handlers' = handlers \ {h}
    /\ IF connector # NULL
       THEN /\ WireRoom(connector)
            /\ wire' = send(connector, AgentErrorFrame(h.id, errMsg))
            /\ ev' = Event("handler_rejected", h.conn, MessageFrame(h.id, h.imei, ""),
                           Sent(connector, AgentErrorFrame(h.id, errMsg)), <<>>, errMsg)
       ELSE /\ UNCHANGED wire
            /\ ev' = Event("handler_rejected", h.conn, MessageFrame(h.id, h.imei, ""),
                           <<>>, <<>>, errMsg)
    /\ UNCHANGED <<cfgVars, toolCtx, gw, rtVars, connVars, timerVars, nMsg, nextId>>

\* ---- caller API ---------------------------------------------------------
\* a sendPush without the roster check
sendPush_unpaired(imei, text) ==
    /\ UNCHANGED <<cfgVars, toolCtx, gw, rtVars, connVars, timerVars, handlers, nMsg>>
    /\ IF ~isConnected
       THEN /\ UNCHANGED <<wire, nextId>>
            /\ ev' = Event("sendPush", connector, MessageFrame(0, imei, text),
                           <<>>, <<>>, "throw_not_connected")
       ELSE /\ WireRoom(connector)
            /\ nextId' = nextId + 1
            /\ wire' = send(connector, PushFrame(nextId + 1, imei, text))
            /\ ev' = Event("sendPush", connector, MessageFrame(0, imei, text),
                           Sent(connector, PushFrame(nextId + 1, imei, text)),
                           <<>>, "ok")
\* runtime.sendPush(imei, text), called by `caller`, whose outcome on
\* return is `done`
pushCall(caller, done, imei, text) ==
    /\ UNCHANGED <<cfgVars, toolCtx, gw, rtVars, connVars, timerVars, handlers, nMsg>>
    /\ IF ~isConnected
       THEN /\ UNCHANGED <<wire, nextId>>
            /\ ev' = Event(caller, connector, MessageFrame(0, imei, text),
                           <<>>, <<>>, "throw_not_connected")
       ELSE IF ~Contains(pairedWatches, imei)
       THEN /\ UNCHANGED <<wire, nextId>>
            /\ ev' = Event(caller, connector, MessageFrame(0, imei, text),
                           <<>>, <<>>, "throw_not_paired")
       ELSE /\ WireRoom(connector)
            /\ nextId' = nextId + 1
            /\ wire' = send(connector, PushFrame(nextId + 1, imei, text))
            /\ ev' = Event(caller, connector, MessageFrame(0, imei, text),
                           Sent(connector, PushFrame(nextId + 1, imei, text)),
                           <<>>, done)
sendPush(imei, text) == pushCall("sendPush", "ok", imei, text)

\* ---- channel plugin (channel.ts) ----------------------------------------
\* getRuntime() returns null: throw new Error("Clawatch runtime not available")
NoRuntime(caller) ==
    /\ UNCHANGED <<cfgVars, toolCtx, gw, rtVars, connVars, timerVars, ioVars>>
    /\ ev' = Event(caller, NULL, NoFrame, <<>>, <<>>, "throw_no_runtime")
\* outbound.sendText({to, text}): the service holds a runtime from start()
\* to stop()
sendText(to, text) ==
    IF ~started THEN NoRuntime("sendText")
    ELSE pushCall("sendText", "delivered", to, text)
\* a sendMedia that does not look at mediaUrl
sendMedia_anyUrl(to, text, mediaUrl) == sendText(to, text)
\* outbound.sendMedia({to, text, mediaUrl})
sendMedia(to, text, mediaUrl) ==
    IF ~started THEN NoRuntime("sendMedia")
    ELSE IF mediaUrl # ""
    THEN /\ UNCHANGED <<cfgVars, toolCtx, gw, rtVars, connVars, timerVars, ioVars>>
         /\ ev' = Event("sendMedia", connector, NoFrame, <<>>, <<>>, "throw_media")
    ELSE pushCall("sendMedia", "delivered", to, text)

\* runtime.sendControl({action, imei, params}): a fresh id, then
\* connector?.send(control frame); the returned promise resolves
sendControl(action, imei, params) ==
    /\ nextId < MaxId
    /\ nextId' = nextId + 1
    /\ IF connector # NULL
       THEN /\ ConnIsConnected(connector) => WireRoom(connector)
            /\ wire' = send(connector, ControlFrame(nextId + 1, action, imei, params))
       ELSE UNCHANGED wire
    /\ UNCHANGED <<cfgVars, toolCtx, gw, rtVars, connVars, timerVars, handlers, nMsg>>
    /\ ev' = Event("sendControl", connector, NoFrame, <<>>, <<>>, "resolved")

\* ---- tool factory (index.ts) --------------------------------------------
\* the keys a run can carry: derived by getSessionKey, with or without the
\* gateway's session: prefix, or anything else
SessionKeys ==
    {getSessionKey(p, i) : p \in Prefixes, i \in ImeiStrings}
    \cup {SessionAlias(getSessionKey(p, i)) : p \in Prefixes, i \in ImeiStrings}
    \cup RawKeys
\* the clawatch_interim factory: sessionImei = parseImeiFromSessionKey(ctx.sessionKey)
ToolFactory(sessionKey) ==
    /\ toolCtx' = [sessionKey |-> sessionKey,
                   sessionImei |-> parseImeiFromSessionKey(sessionKey)]
    /\ UNCHANGED <<cfgVars, gw, rtVars, connVars, timerVars, ioVars>>
    /\ ev' = Event("tool_factory", NULL, NoFrame, <<>>, <<>>, "")

\* ---- gateway (gateway.ts) -----------------------------------------------
\* config.baseUrl without its trailing slash, and the two endpoint paths
baseUrl == "http://127.0.0.1:18789"
urls == <<baseUrl \o "/api/v1/chat/completions", baseUrl \o "/v1/chat/completions">>
\* s.includes(sub)
Includes(s, sub) ==
    \E k \in 1..(Len(s) - Len(sub) + 1) : SubSeq(s, k, k + Len(sub) - 1) = sub
\* line.trim()
Whitespace == {" ", "\t", "\r", "\n"}
RECURSIVE TrimStart(_)
TrimStart(s) ==
    IF s # "" /\ SubSeq(s, 1, 1) \in Whitespace THEN TrimStart(Drop(s, 1)) ELSE s
RECURSIVE TrimEnd(_)
TrimEnd(s) ==
    IF s # "" /\ SubSeq(s, Len(s), Len(s)) \in Whitespace
    THEN TrimEnd(SubSeq(s, 1, Len(s) - 1))
    ELSE s
trim(s) == TrimEnd(TrimStart(s))

\* the delta fragments the server streams, and the JSON text that carries one
Deltas == {"Hel", "lo"}
DeltaJson(d) == "{\"choices\":[{\"delta\":{\"content\":\"" \o d \o "\"}}]}"
\* JSON.parse(jsonStr).choices?.[0]?.delta?.content, and "" when JSON.parse
\* throws or the value has no such field
deltaOf(jsonStr) ==
    IF \E d \in Deltas : jsonStr = DeltaJson(d)
    THEN CHOOSE d \in Deltas : jsonStr = DeltaJson(d)
    ELSE ""
\* what one line of the stream adds to content
lineDelta(line) ==
    LET trimmed == trim(line)
    IN IF trimmed = "" \/ trimmed = "data: [DONE]" THEN ""
       ELSE IF ~StartsWith(trimmed, "data: ") THEN ""
       ELSE deltaOf(Drop(trimmed, Len("data: ")))
\* the position of the first newline of s at or after k, 0 when there is none
RECURSIVE NewlineAt(_, _)
NewlineAt(s, k) ==
    IF k > Len(s) THEN 0
    ELSE IF SubSeq(s, k, k) = "\n" THEN k
    ELSE NewlineAt(s, k + 1)
\* lines = buffer.split("\n"); buffer = lines.pop() || ""; for (line of lines)
RECURSIVE processBuffer(_, _)
processBuffer(buffer, content) ==
    LET k == NewlineAt(buffer, 1)
    IN IF k = 0 THEN [buffer |-> buffer, content |-> content]
       ELSE processBuffer(Drop(buffer, k),
                          content \o lineDelta(SubSeq(buffer, 1, k - 1)))

\* the lines a server streams, each with the fragment it stands for
DataLine(d) == [text |-> "data: " \o DeltaJson(d), delta |-> d]
CrDataLine(d) == [text |-> "data: " \o DeltaJson(d) \o "\r", delta |-> d]
DoneLine == [text |-> "data: [DONE]", delta |-> ""]
BlankLine == [text |-> "", delta |-> ""]
CommentLine == [text |-> ": keep-alive", delta |-> ""]
BadJsonLine == [text |-> "data: {oops", delta |-> ""]
\* the streamed bodies: lines, and whether the last one ends with a newline
Streams ==
    {[lines |-> <<DataLine("Hel"), DataLine("lo")>>, terminated |-> TRUE],
     [lines |-> <<DataLine("Hel"), DataLine("lo")>>, terminated |-> FALSE],
     [lines |-> <<DataLine("Hel"), BlankLine, DoneLine>>, terminated |-> TRUE],
     [lines |-> <<CommentLine, CrDataLine("lo"), BlankLine>>, terminated |-> TRUE],
     [lines |-> <<BadJsonLine, DataLine("lo")>>, terminated |-> TRUE]}
RECURSIVE StreamBody(_, _)
StreamBody(lines, terminated) ==
    IF lines = <<>> THEN ""
    ELSE Head(lines).text
         \o (IF Len(lines) > 1 \/ terminated THEN "\n" ELSE "")
         \o StreamBody(Tail(lines), terminated)
RECURSIVE StreamDeltas(_)
StreamDeltas(lines) ==
    IF lines = <<>> THEN "" ELSE Head(lines).delta \o StreamDeltas(Tail(lines))
\* the ways reader.read() can deliver body s: whole, or cut at up to n places
RECURSIVE ChunkingsOf(_, _)
ChunkingsOf(s, n) ==
    IF n = 0 THEN {<<s>>}
    ELSE {<<s>>}
         \cup UNION {{<<SubSeq(s, 1, a)>> \o rest : rest \in ChunkingsOf(Drop(s, a), n - 1)} :
                        a \in 1..(Len(s) - 1)}
Chunkings(s) == ChunkingsOf(s, MaxSplits)

\* what fetch(url) can give
OkResponse(chunks) == [kind |-> "ok", status |-> "200", text |-> "", chunks |-> chunks]
HttpError(status, text) == [kind |-> "http", status |-> status, text |-> text, chunks |-> <<>>]
NetworkError(message) == [kind |-> "network", status |-> "", text |-> message, chunks |-> <<>>]
NullBody == [kind |-> "nobody", status |-> "200", text |-> "", chunks |-> <<>>]
FailedResponses ==
    {HttpError(st, b) : st \in {"405", "500"},
                        b \in {"Method Not Allowed", "upstream answered 405", ""}}
    \cup {NetworkError(m) : m \in {"fetch failed", "connect ECONNREFUSED 10.0.0.1:4050"}}
    \cup {NullBody}
SecondResponses ==
    FailedResponses \cup {OkResponse(<<StreamBody(<<DataLine("lo")>>, TRUE)>>)}
\* the calls: the answers of the two paths and the text the stream stands for
GwCalls ==
    UNION {{<<OkResponse(ch), NullBody, StreamDeltas(st.lines)>> :
                ch \in Chunkings(StreamBody(st.lines, st.terminated))} : st \in Streams}
    \cup {<<r1, r2, IF r2.kind = "ok" THEN "lo" ELSE "">> :
                r1 \in FailedResponses, r2 \in SecondResponses}

\* chatCompletion(config, sessionKey, userMessage): builds the request and
\* fetches the first path
chatCompletion(r1, r2, expected) ==
    /\ gw.phase = "idle"
    /\ gw' = [GwIdle EXCEPT !.phase = "fetching", !.responses = <<r1, r2>>,
                            !.expected = expected, !.i = 1,
                            !.fetched = <<urls[1]>>]
    /\ UNCHANGED <<cfgVars, toolCtx, rtVars, connVars, timerVars, ioVars>>
    /\ ev' = Event("chatCompletion", NULL, NoFrame, <<>>, <<>>, "")
\* the fetch of path i settles: a stream to read, the next path, or a throw
GwResponse ==
    /\ gw.phase = "fetching"
    /\ LET r == gw.responses[gw.i]
           message ==
               IF r.kind = "http"
               THEN "Gateway error " \o r.status \o " for " \o urls[gw.i] \o ": " \o r.text
               ELSE IF r.kind = "nobody" THEN "Response body is null"
               ELSE r.text
           Continue ==
               IF gw.i < Len(urls)
               THEN [gw EXCEPT !.i = @ + 1, !.fetched = Append(@, urls[gw.i + 1]),
                               !.lastError = message]
               ELSE [gw EXCEPT !.phase = "thrown", !.lastError = message,
                               !.result = message]
       IN gw' = IF r.kind = "ok"
                THEN [gw EXCEPT !.phase = "streaming", !.rest = r.chunks]
                ELSE IF r.kind = "http" /\ r.status = "405" THEN Continue
                ELSE IF Includes(message, "405") THEN Continue
                ELSE [gw EXCEPT !.phase = "thrown", !.result = message]
    /\ UNCHANGED <<cfgVars, toolCtx, rtVars, connVars, timerVars, ioVars>>
    /\ ev' = Event("gw_response", NULL, NoFrame, <<>>, <<>>, "")
\* reader.read() settles: done, or one more chunk
GwRead ==
    /\ gw.phase = "streaming"
    /\ gw' = IF gw.rest = <<>>
             THEN [gw EXCEPT !.phase = "returned", !.result = gw.content]
             ELSE LET after == processBuffer(gw.buffer \o Head(gw.rest), gw.content)
                  IN [gw EXCEPT !.rest = Tail(@), !.buffer = after.buffer,
                                !.content = after.content]
    /\ UNCHANGED <<cfgVars, toolCtx, rtVars, connVars, timerVars, ioVars>>
    /\ ev' = Event("gw_read", NULL, NoFrame, <<>>, <<>>, "")

\* ---- specifications -----------------------------------------------------
Init == InitOf(MaxFrameConn)

\* every task of the program, in runs that construct up to MaxFrameConn
\* connectors
Next ==
    \/ connect
    \/ disconnect
    \/ \E c \in Conns : TransportOpen(c)
    \/ \E c \in Conns : TransportError(c)
    \/ \E c \in Conns : TransportClose(c)
    \/ \E c \in Conns : ConnectTimeout(c)
    \/ \E c \in Conns : ReconnectTimerFires(c)
    \/ ManualTimerFires
    \/ RetryTimerFires
    \/ \E c \in Conns : PingTick(c)
    \/ \E c \in Conns, p \in Payloads : Receive(c, p)
    \/ \E c \in Conns, i \in Imeis, t \in Texts : ReceiveMessage(c, i, t)
    \/ \E h \in handlers, t \in ReplyTexts : HandlerResolves(h, t)
    \/ \E h \in handlers, e \in ErrMsgs : HandlerRejects(h, e)
    \/ \E i \in Imeis, t \in Texts : sendPush(i, t)
    \/ \E call \in ControlCalls, i \in ControlImeis : sendControl(call[1], i, call[2])
    \/ \E k \in SessionKeys : ToolFactory(k)

Spec == Init /\ [][Next]_vars

\* the connection lifecycle with every kind of inbound frame and the injected
\* handler, in runs that construct up to MaxFrameConn connectors
NextFrames ==
    \/ connect
    \/ disconnect
    \/ \E c \in Conns : TransportOpen(c)
    \/ \E c \in Conns : TransportError(c)
    \/ \E c \in Conns : TransportClose(c)
    \/ \E c \in Conns : ConnectTimeout(c)
    \/ \E c \in Conns : ReconnectTimerFires(c)
    \/ ManualTimerFires
    \/ RetryTimerFires
    \/ \E c \in Conns, p \in Payloads : Receive(c, p)
    \/ \E c \in Conns, i \in Imeis, t \in Texts : ReceiveMessage(c, i, t)
    \/ \E h \in handlers, t \in ReplyTexts : HandlerResolves(h, t)
    \/ \E h \in handlers, e \in ErrMsgs : HandlerRejects(h, e)

SpecFrames == Init /\ [][NextFrames]_vars

\* the connection lifecycle with the handshake frames (Registered, Error), in
\* runs that construct up to MaxConn connectors
HandshakePayloads ==
    {p \in Payloads : p.type \in {"registered", "error"}
                      /\ p.watches \in {<<>>, NoWatches}}
InitLife == InitOf(MaxConn)
NextLife ==
    \/ connect
    \/ disconnect
    \/ \E c \in Conns : TransportOpen(c)
    \/ \E c \in Conns : TransportError(c)
    \/ \E c \in Conns : TransportClose(c)
    \/ \E c \in Conns : ConnectTimeout(c)
    \/ \E c \in Conns : ReconnectTimerFires(c)
    \/ ManualTimerFires
    \/ RetryTimerFires
    \/ \E c \in Conns, p \in HandshakePayloads : Receive(c, p)

SpecLife == InitLife /\ [][NextLife]_vars

\* a session the caller starts once and never stops, whose connections
\* settle before the 15 s timeout and whose server sends Registered and
\* Message frames: runs that construct up to MaxConn connectors
SessionPayloads ==
    {p \in Payloads : p.type = "registered" /\ p.watches \in WatchLists}
InitSession == InitOf(MaxConn) /\ apiToken /\ urlOk
NextSession ==
    \/ connect
    \/ \E c \in Conns : TransportOpen(c)
    \/ \E c \in Conns : TransportError(c)
    \/ \E c \in Conns : TransportClose(c)
    \/ \E c \in Conns : ReconnectTimerFires(c)
    \/ ManualTimerFires
    \/ RetryTimerFires
    \/ \E c \in Conns, p \in SessionPayloads : Receive(c, p)
    \/ \E c \in Conns, i \in Imeis, t \in Texts : ReceiveMessage(c, i, t)
    \/ \E h \in handlers, t \in ReplyTexts : HandlerResolves(h, t)
    \/ \E h \in handlers, e \in ErrMsgs : HandlerRejects(h, e)
    \/ \E i \in Imeis, t \in Texts : sendPush(i, t)

SpecSession == InitSession /\ [][NextSession]_vars

\* the connection lifecycle alone, timers firing fairly: a pending reconnect
\* timer of scheduleReconnect eventually fires
NextRetry ==
    \/ connect
    \/ disconnect
    \/ \E c \in Conns : TransportOpen(c)
    \/ \E c \in Conns : TransportError(c)
    \/ \E c \in Conns : TransportClose(c)
    \/ \E c \in Conns : ConnectTimeout(c)
    \/ \E c \in Conns : ReconnectTimerFires(c)
    \/ ManualTimerFires
    \/ RetryTimerFires

SpecRetry ==
    /\ InitLife
    /\ [][NextRetry]_vars
    /\ \A c \in Conns : WF_vars(ReconnectTimerFires(c))

\* the connection lifecycle with control sends by the caller, in runs that
\* construct up to MaxFrameConn connectors
NextControl ==
    \/ connect
    \/ disconnect
    \/ \E c \in Conns : TransportOpen(c)
    \/ \E c \in Conns : TransportError(c)
    \/ \E c \in Conns : TransportClose(c)
    \/ \E c \in Conns : ConnectTimeout(c)
    \/ \E c \in Conns : ReconnectTimerFires(c)
    \/ ManualTimerFires
    \/ RetryTimerFires
    \/ \E call \in ControlCalls, i \in ControlImeis : sendControl(call[1], i, call[2])

SpecControl == Init /\ [][NextControl]_vars

\* the connection lifecycle with every kind of inbound frame and the
\* caller's pushes and control sends, in runs that construct up to
\* MaxFrameConn connectors
ApiPayloads == {p \in Payloads : p.code \in {"", "invalid_token", "none"}}
InitApi == Init /\ apiToken /\ urlOk
NextApi ==
    \/ connect
    \/ disconnect
    \/ \E c \in Conns : TransportOpen(c)
    \/ \E c \in Conns : TransportError(c)
    \/ \E c \in Conns : TransportClose(c)
    \/ \E c \in Conns : ConnectTimeout(c)
    \/ \E c \in Conns : ReconnectTimerFires(c)
    \/ ManualTimerFires
    \/ RetryTimerFires
    \/ \E c \in Conns, p \in ApiPayloads : Receive(c, p)
    \/ \E i \in Imeis, t \in Texts : sendPush(i, t)
    \/ sendControl("get_config", "860000035452456", "")

SpecApi == InitApi /\ [][NextApi]_vars

\* the connection lifecycle with the handshake frames and the heartbeat, in
\* runs that construct up to MaxFrameConn connectors
NextPing ==
    \/ connect
    \/ disconnect
    \/ \E c \in Conns : TransportOpen(c)
    \/ \E c \in Conns : TransportError(c)
    \/ \E c \in Conns : TransportClose(c)
    \/ \E c \in Conns : ConnectTimeout(c)
    \/ \E c \in Conns : ReconnectTimerFires(c)
    \/ ManualTimerFires
    \/ RetryTimerFires
    \/ \E c \in Conns : PingTick(c)
    \/ \E c \in Conns, p \in HandshakePayloads : Receive(c, p)

SpecPing == Init /\ [][NextPing]_vars

\* a session the caller starts and stops, whose server sends Registered,
\* Unbound and Message frames: runs that construct up to MaxConn connectors
RosterPayloads ==
    {p \in Payloads : \/ p.type = "registered" /\ p.watches = <<"860000035452456">>
                      \/ p.type = "unbound" /\ p.imei = "860000035452456"}
NextMsg ==
    \/ connect
    \/ disconnect
    \/ \E c \in Conns : TransportOpen(c)
    \/ \E c \in Conns : TransportError(c)
    \/ \E c \in Conns : TransportClose(c)
    \/ \E c \in Conns : ReconnectTimerFires(c)
    \/ ManualTimerFires
    \/ RetryTimerFires
    \/ \E c \in Conns, p \in RosterPayloads : Receive(c, p)
    \/ \E c \in Conns, i \in Imeis, t \in Texts : ReceiveMessage(c, i, t)

SpecMsg == InitSession /\ [][NextMsg]_vars

\* a session whose server sends up to MaxMsgPair Message frames, and
\* Registered and Unbound frames, while the handlers of earlier messages are
\* pending: runs that construct up to MaxFrameConn connectors
HandlerPayloads ==
    {p \in Payloads : \/ p.type = "registered" /\ p.watches # NoWatches
                      \/ p.type = "unbound" /\ p.imei = "860000035452456"}
InitHandlers == InitWith(MaxFrameConn, MaxMsgPair, MaxWireLong) /\ apiToken /\ urlOk
NextHandlers ==
    \/ connect
    \/ \E c \in Conns : TransportOpen(c)
    \/ \E c \in Conns : TransportClose(c)
    \/ \E c \in Conns : ReconnectTimerFires(c)
    \/ \E c \in Conns, p \in HandlerPayloads : Receive(c, p)
    \/ \E c \in Conns, i \in Imeis, t \in Texts : ReceiveMessage(c, i, t)
    \/ \E h \in handlers, t \in ReplyTexts : HandlerResolves(h, t)
    \/ \E h \in handlers, e \in ErrMsgs : HandlerRejects(h, e)

SpecHandlers == InitHandlers /\ [][NextHandlers]_vars

\* a caller that stops the session only while it waits to reconnect, every
\* transport closed, and may start it again: whatever timer is pending after
\* such a disconnect() was scheduled before it
StopWhileWaiting ==
    /\ started
    /\ \A c \in Conns : readyState[c] \in {"NONE", "CLOSED"}
    /\ disconnect
NextRestart ==
    \/ connect
    \/ StopWhileWaiting
    \/ \E c \in Conns : TransportOpen(c)
    \/ \E c \in Conns : TransportError(c)
    \/ \E c \in Conns : TransportClose(c)
    \/ \E c \in Conns : ConnectTimeout(c)
    \/ \E c \in Conns : ReconnectTimerFires(c)
    \/ ManualTimerFires
    \/ RetryTimerFires
    \/ \E c \in Conns, p \in HandshakePayloads : Receive(c, p)

SpecRestart == InitLife /\ [][NextRestart]_vars

\* the connection lifecycle with Registered and Unbound frames and the
\* channel plugin's deliveries, in runs that construct up to MaxFrameConn
\* connectors
NextChannel ==
    \/ connect
    \/ disconnect
    \/ \E c \in Conns : TransportOpen(c)
    \/ \E c \in Conns : TransportError(c)
    \/ \E c \in Conns : TransportClose(c)
    \/ \E c \in Conns : ReconnectTimerFires(c)
    \/ ManualTimerFires
    \/ RetryTimerFires
    \/ \E c \in Conns, p \in RosterPayloads : Receive(c, p)
    \/ \E i \in Imeis, t \in Texts : sendText(i, t)
    \/ \E i \in Imeis, t \in Texts, u \in MediaUrls : sendMedia(i, t, u)

SpecChannel == InitApi /\ [][NextChannel]_vars

\* one call of chatCompletion on a runtime that stays idle
NextGateway ==
    \/ gw.phase = "idle" /\ \E call \in GwCalls : chatCompletion(call[1], call[2], call[3])
    \/ GwResponse
    \/ GwRead

SpecGateway == InitApi /\ [][NextGateway]_vars

\* ---- service (index.ts) -------------------------------------------------
\* start(): createClawatchRuntime, then runtime.connect() on the new runtime
start ==
    /\ ev.type = "init"
    /\ connect
\* stop(): runtime?.disconnect(); runtime = null. Nothing calls connect() on
\* the stopped runtime again: a later start() constructs another runtime
stop ==
    /\ started
    /\ disconnect

\* one runtime from the service's start() to its stop() and after, in runs
\* that construct up to MaxConn connectors
NextService ==
    \/ start
    \/ stop
    \/ \E c \in Conns : TransportOpen(c)
    \/ \E c \in Conns : TransportError(c)
    \/ \E c \in Conns : TransportClose(c)
    \/ \E c \in Conns : ConnectTimeout(c)
    \/ \E c \in Conns : ReconnectTimerFires(c)
    \/ ManualTimerFires
    \/ RetryTimerFires
    \/ \E c \in Conns : PingTick(c)
    \/ \E c \in Conns, p \in HandshakePayloads : Receive(c, p)

SpecService == InitLife /\ [][NextService]_vars

\* the session keys that reach the tool factory, on a runtime that stays idle
NextKeys == \E k \in SessionKeys : ToolFactory(k)

SpecKeys == Init /\ [][NextKeys]_vars

\* ---- claims -------------------------------------------------------------
\* the connectors whose transport is connecting or open
Live == {c \in Conns : readyState[c] \in {"CONNECTING", "OPEN"}}
\* how many times frame f is on the wires w
Occurrences(w, f) ==
    Cardinality({<<c, k>> \in Conns \X (1..(MaxWire + 1)) :
                    k <= Len(w[c]) /\ w[c][k] = f})
\* the frames on the wires w that are of type t and carry id m
FramesFor(w, t, m) ==
    {<<c, k>> \in Conns \X (1..(MaxWire + 1)) :
        k <= Len(w[c]) /\ w[c][k].type = t /\ w[c][k].id = m}
ThrowResults == {"throw_not_connected", "throw_not_paired"}
HookEvents ==
    {"close", "error", "timeout", "reconnect_timer", "manual_timer", "retry_timer"}

\* C1: in every reachable state at most one Connector has a transport that
\* is connecting or open.
C1_AtMostOneLive == Cardinality(Live) <= 1

\* C2: when the handler of a Message with id m completes and the transport
\* that delivered m is still open, exactly one Reply {id: m, text: t} and no
\* Error frame for m is on the wire if it resolved with t, and exactly one
\* Error {id: m, code: agent_error, message: e} and no Reply if it rejected
\* with e.
C2_ExactlyOneAnswer ==
    [][ev'.type \in {"handler_resolved", "handler_rejected"} =>
       \A h \in handlers :
          /\ \A t \in ReplyTexts :
                HandlerResolves(h, t) /\ readyState[h.conn] = "OPEN"
                => /\ Occurrences(wire', ReplyFrame(h.id, t)) = 1
                   /\ Cardinality(FramesFor(wire', "reply", h.id)) = 1
                   /\ FramesFor(wire', "error", h.id) = {}
          /\ \A e \in ErrMsgs :
                HandlerRejects(h, e) /\ readyState[h.conn] = "OPEN"
                => /\ Occurrences(wire', AgentErrorFrame(h.id, e)) = 1
                   /\ Cardinality(FramesFor(wire', "error", h.id)) = 1
                   /\ FramesFor(wire', "reply", h.id) = {}]_vars

\* C3: a sendPush issued while the runtime is not connected, or for an IMEI
\* that is not in the roster, throws, puts nothing on the wire and leaves the
\* roster and the connection state as they were.
C3_PushFailsClosed ==
    [][ev'.type = "sendPush" =>
       \A i \in Imeis, t \in Texts :
          sendPush(i, t) /\ (~isConnected \/ ~Contains(pairedWatches, i))
          => /\ ev'.result \in ThrowResults
             /\ wire' = wire
             /\ nextId' = nextId
             /\ pairedWatches' = pairedWatches
             /\ connector' = connector
             /\ connVars' = connVars]_vars
C3_Witness ==
    ev.type = "sendPush" /\ ev.result = "throw_not_paired" /\ isConnected

\* C4: once a Registered frame naming an IMEI has been received and neither
\* an Unbound for it nor a close of that transport followed, sendPush for
\* that IMEI succeeds and puts exactly one Push frame with that IMEI and text
\* on the wire.
C4_PushAfterRegistered ==
    [][ev'.type = "sendPush" =>
       \A i \in Imeis, t \in Texts :
          /\ sendPush(i, t)
          /\ ev.regOn # NULL
          /\ readyState[ev.regOn] = "OPEN"
          /\ Contains(pairedWatches, i)
          => /\ ev'.result = "ok"
             /\ Occurrences(wire', PushFrame(nextId', i, t)) = 1]_vars

\* C5: the roster is the watch list of the latest Registered frame without
\* the IMEIs of the Unbound frames that followed: a Registered frame
\* replaces it, an Unbound frame removes that IMEI and nothing else (nothing
\* at all if it is absent), and no other task but disconnect() changes it.
C5_Roster ==
    [][IF ev'.type = "frame"
       THEN /\ \A c \in Conns, p \in Payloads :
                  \/ pairedWatches' =
                        IF p.type = "registered" /\ p.watches \in WatchLists
                        THEN p.watches
                        ELSE IF p.type = "unbound"
                        THEN SelectSeq(pairedWatches, LAMBDA w : w # p.imei)
                        ELSE pairedWatches
                  \/ ~Receive(c, p)
            /\ (\E c \in Conns, i \in Imeis, t \in Texts : ReceiveMessage(c, i, t))
                  => pairedWatches' = pairedWatches
       ELSE ev'.type # "disconnect" => pairedWatches' = pairedWatches]_vars
C5_Witness ==
    /\ ev.type = "frame"
    /\ ev.cbs = <<Cb("onUnbound", "")>>
    /\ pairedWatches = <<"860000035452457">>

\* C6: after disconnect() and until the next connect(), whatever close
\* event, connect rejection or timer fires, no Connector is created, no
\* transport starts connecting or opens, and nothing is sent.
C6_HookNoop ==
    [][disconnecting /\ ev'.type \in HookEvents
          => /\ nConn' = nConn
             /\ connector' = connector
             /\ \A c \in Conns :
                   readyState'[c] \in {"CONNECTING", "OPEN"}
                   => readyState'[c] = readyState[c]
             /\ wire' = wire]_vars
C6_Witness ==
    disconnecting /\ ev.type = "reconnect_timer" /\ ev.result = "noop"

\* C7: disconnect() in any state, also when never connected, leaves
\* isConnected() false, the Connector that was current not connected, the
\* roster empty and the session-key map empty; called twice in a row, the
\* second call changes nothing.
C7_DisconnectIdempotent ==
    [][ev'.type = "disconnect" /\ disconnect
          => /\ ~isConnected'
             /\ connector # NULL
                   => ~(ws'[connector] /\ readyState'[connector] = "OPEN")
             /\ pairedWatches' = <<>>
             /\ DOMAIN sessionKeyToImei' = {}
             /\ ev.type = "disconnect"
                   => UNCHANGED <<cfgVars, toolCtx, gw, rtVars, connVars, timerVars, ioVars>>]_vars
C7_Witness == ev.type = "disconnect" /\ ev.result = "again" /\ nConn > 0

\* C8: the result of a Connector's connect() resolves only in the task that
\* receives a Registered frame on that Connector's transport, and when it
\* does the heartbeat timer is set and the roster callback has stored the
\* frame's watch list.
C8_ResolvesOnRegistered ==
    [][\A c \in Conns :
          promise[c] # "resolved" /\ promise'[c] = "resolved"
          => \E p \in Payloads :
                /\ p.type = "registered"
                /\ Receive(c, p)
                /\ pingInterval'[c]
                /\ pairedWatches' = p.watches]_vars
C8_Witness ==
    /\ ev.result = "resolved"
    /\ \E c \in Conns : promise[c] = "resolved" /\ pingInterval[c]

\* C9: every connect() settles: once the 15 s timeout is no longer pending
\* and the transport has closed, the result is resolved or rejected.
C9_ConnectSettles ==
    \A c \in Conns :
        readyState[c] = "CLOSED" /\ ~timeout[c] => promise[c] # "pending"

\* C10: an Error frame is forwarded to the error callback exactly once; with
\* code invalid_token or unauthorized it rejects a pending connect(); with
\* any other code or none it leaves the connect() result, the transport and
\* the heartbeat as they were.
C10_ErrorFrames ==
    [][ev'.type = "frame" =>
       \A c \in Conns, p \in Payloads :
          p.type = "error" /\ Receive(c, p)
          => /\ ev'.cbs = <<Cb("onError", p.code)>>
             /\ IF p.code \in {"invalid_token", "unauthorized"}
                THEN promise[c] = "pending" => promise'[c] = "rejected"
                ELSE /\ promise' = promise
                     /\ readyState' = readyState
                     /\ ws' = ws
                     /\ pingInterval' = pingInterval]_vars
C10_Witness ==
    /\ ev.type = "frame"
    /\ ev.cbs = <<Cb("onError", "rate_limited")>>
    /\ \E c \in Conns : promise[c] = "pending" /\ readyState[c] = "OPEN"

\* C20: a session key derived with getSessionKey from a configured prefix and
\* a 15-digit IMEI, with or without the session: prefix in front, parses back
\* to that IMEI, and every other string parses to no IMEI.
C20_KeyRoundTrip ==
    LET KeysOf(p, i) == {getSessionKey(p, i), SessionAlias(getSessionKey(p, i))}
        Derived == {<<p, i>> \in Prefixes \X ImeiStrings :
                       IsImei(i) /\ toolCtx.sessionKey \in KeysOf(p, i)}
    IN IF Derived = {}
       THEN toolCtx.sessionKey # "" => toolCtx.sessionImei = "null"
       ELSE \A d \in Derived : toolCtx.sessionImei = d[2]

\* C17: every sendControl call puts exactly one Control frame with its
\* action, imei and params and a correlation id not used before on the wire,
\* and completes in the same task, whatever ControlAck frames arrive or not.
C17_ControlEmitsOne ==
    [][ev'.type = "sendControl" =>
       \A call \in ControlCalls, i \in ControlImeis :
          sendControl(call[1], i, call[2])
          => /\ Occurrences(wire', ControlFrame(nextId', call[1], i, call[2])) = 1
             /\ FramesFor(wire, "control", nextId') = {}
             /\ Cardinality(FramesFor(wire', "control", nextId')) = 1
             /\ ev'.result = "resolved"]_vars

\* C18: a sendControl issued while the runtime is not connected is rejected
\* to the caller and puts nothing on the wire: a call that completes
\* successfully has put its Control frame on the wire.
C18_ControlFailsClosed ==
    [][ev'.type = "sendControl" =>
          /\ ~isConnected => ev'.result # "resolved" /\ wire' = wire
          /\ ev'.result = "resolved"
                => Cardinality(FramesFor(wire', "control", nextId')) = 1]_vars

\* C19: no operation puts a frame on the wire that carries an IMEI which is
\* not exactly 15 digits: a push or control naming such an IMEI is rejected
\* before anything is sent.
C19_ImeiChecked ==
    \A c \in Conns : \A k \in 1..Len(wire[c]) :
        wire[c][k].type \in {"push", "control"} => IsImei(wire[c][k].imei)

\* C14: a send on a Connector whose transport is absent, connecting, closing
\* or closed leaves the wire as it is and reports nothing sent; the task that
\* calls it (a handler completing while the current Connector is not open)
\* completes and changes no field of any Connector.
C14_SendDrops ==
    [][ev'.type \in {"handler_resolved", "handler_rejected"}
          /\ connector # NULL
          /\ ~(ws[connector] /\ readyState[connector] = "OPEN")
          => /\ wire' = wire
             /\ connVars' = connVars
             /\ connector' = connector
             /\ \A c \in Conns, h \in handlers :
                   ~(ws[c] /\ readyState[c] = "OPEN")
                   => /\ send(c, ReplyFrame(h.id, "hi there")) = wire
                      /\ Sent(c, ReplyFrame(h.id, "hi there")) = <<>>]_vars
C14_Witness ==
    /\ ev.type = "handler_resolved"
    /\ connector # NULL
    /\ readyState[connector] = "CONNECTING"

\* C15: a Connector reports connected exactly when the transport it created
\* is open, and the runtime reports what its current Connector reports, or
\* false when it has none.
C15_IsConnected ==
    /\ \A c \in Conns : ConnIsConnected(c) <=> readyState[c] = "OPEN"
    /\ isConnected <=> (connector # NULL /\ readyState[connector] = "OPEN")
    /\ connector = NULL => ~isConnected
C15_Witness ==
    /\ isConnected
    /\ \E c \in Conns : c # connector /\ ws[c] /\ ~ConnIsConnected(c)

\* C16: a payload that is not JSON, before or after registration, invokes
\* the error callback exactly once with invalid_frame and nothing else,
\* leaves the transport open, the heartbeat and the connect() result as they
\* were, and the Connector goes on receiving frames.
C16_InvalidJson ==
    [][ev'.type = "frame" =>
       \A c \in Conns :
          Receive(c, GarbagePayload)
          => /\ ev'.cbs = <<Cb("onError", "invalid_frame")>>
             /\ readyState' = readyState
             /\ readyState'[c] = "OPEN"
             /\ ws' = ws
             /\ pingInterval' = pingInterval
             /\ promise' = promise
             /\ pairedWatches' = pairedWatches]_vars
C16_Witness ==
    /\ ev.type = "frame"
    /\ ev.cbs = <<Cb("onError", "invalid_frame")>>
    /\ \E c \in Conns : readyState[c] = "OPEN" /\ promise[c] = "resolved"

\* C13: the delay scheduleReconnect chooses at a close is at least the delay
\* chosen at the previous close, at most the 5-minute cap, and the base 1 s
\* at the first close and at the first close after a Registered frame; as a
\* function of the attempt counter it never decreases and never exceeds
\* the cap.
C13_Backoff ==
    /\ ReconnectDelay(0) = baseReconnectMs
    /\ \A a \in 0..MaxAttempts :
          /\ ReconnectDelay(a) <= ReconnectDelay(a + 1)
          /\ ReconnectDelay(a + 1) <= maxReconnectMs
    /\ [][ev'.type = "close" =>
            \A c \in Conns :
               readyState'[c] # readyState[c] /\ TransportClose(c)
               => /\ reconnectTimer'[c] >= ev.streak
                  /\ reconnectTimer'[c] <= maxReconnectMs
                  /\ ev.streak = 0 => reconnectTimer'[c] = baseReconnectMs]_vars
C13_Witness ==
    /\ ev.type = "close"
    /\ ev.streak = baseReconnectMs
    /\ \E c \in Conns : promise[c] = "resolved" /\ readyState[c] = "CLOSED"
    /\ Cardinality({c \in Conns : readyState[c] = "CLOSED"}) >= 2

\* C11: after a transport close has armed the reconnect timer, and while
\* more connectors can be constructed, a new Connector is eventually
\* constructed unless disconnect() is called, however many were
\* constructed and closed before.
C11_RetriesNeverStop ==
    \A c \in Conns : \A n \in c..(MaxConn - 1) :
        (reconnectTimer[c] > 0 /\ nConn = n /\ ~disconnecting)
            ~> (disconnecting \/ nConn > n)
C11_Witness ==
    /\ ev.type = "reconnect_timer"
    /\ ev.result = "created"
    /\ nConn = MaxConn
    /\ \A c \in 1..(MaxConn - 1) : readyState[c] = "CLOSED"

\* C12: once the initial connect() has failed, and disconnect() has not been
\* called, a further attempt has been made or something that leads to one is
\* pending: a timer, or a transport whose close event arms one.
C12_BackgroundRetry ==
    LET Initial == {c \in Conns : origin[c] = "connect"
                                  /\ \A d \in Conns : d > c => origin[d] # "connect"}
        Failed == ~apiToken \/ \E c \in Initial : promise[c] = "rejected"
        Further == \E c \in Initial : \E d \in Conns : d > c /\ origin[d] = "reconnect"
        Pending == \/ manualTimers > 0
                   \/ retryTimers > 0
                   \/ \E c \in Conns : reconnectTimer[c] > 0
                   \/ \E c \in Conns : readyState[c] \in {"CONNECTING", "OPEN", "CLOSING"}
    IN started /\ ~disconnecting /\ Failed => Further \/ Pending

\* C21: when a message handler completes after the transport its message
\* arrived on has closed, no Reply and no Error frame for that message id is
\* put on any transport, a transport opened by a later reconnect included.
C21_LateReplyDropped ==
    [][ev'.type \in {"handler_resolved", "handler_rejected"} =>
        \A h \in handlers :
            (h \notin handlers' /\ readyState[h.conn] = "CLOSED")
                => /\ FramesFor(wire', "reply", h.id) = {}
                   /\ FramesFor(wire', "error", h.id) = {}]_vars

\* C22: the roster changes only when a Registered frame is received
\* (replaced by the frame's list), when an Unbound frame is received (the
\* entries of one IMEI removed, the rest kept in order) and on disconnect()
\* (cleared); closes, errors, timers, reconnect attempts, Error and Pong
\* frames, heartbeats, sendPush and sendControl leave it as it was.
C22_RosterChanges ==
    [][pairedWatches' # pairedWatches =>
        \/ /\ ev'.type = "frame"
           /\ ev'.cbs = <<Cb("onRegistered", "")>>
           /\ \E c \in Conns, p \in Payloads :
                p.type = "registered" /\ p.watches = pairedWatches' /\ Receive(c, p)
        \/ /\ ev'.type = "frame"
           /\ ev'.cbs = <<Cb("onUnbound", "")>>
           /\ Len(pairedWatches') = Len(pairedWatches) - 1
           /\ \E k \in 1..Len(pairedWatches) :
                pairedWatches' = SubSeq(pairedWatches, 1, k - 1)
                                 \o SubSeq(pairedWatches, k + 1, Len(pairedWatches))
        \/ /\ ev'.type = "disconnect"
           /\ pairedWatches' = <<>>]_vars
C22_Witness ==
    /\ ev.type = "sendControl"
    /\ pairedWatches # <<>>
    /\ \E c \in Conns : readyState[c] = "CLOSED"
    /\ \E c \in Conns : Len(wire[c]) > 1

\* C23: while no transport has opened yet, the close of a transport that is
\* the k-th close in a row (k from 0) arms the reconnect timer with
\* min(1 s * 2^k, 5 min): 1 s, then 2 s, then 4 s.
C23_DelaySchedule ==
    [][ev'.type = "close" =>
        \A c \in Conns :
            (/\ readyState[c] # "CLOSED"
             /\ readyState'[c] = "CLOSED"
             /\ \A d \in Conns : wire[d] = <<>>)
            => LET k == Cardinality({d \in Conns : readyState[d] = "CLOSED"})
               IN reconnectTimer'[c] = Min(1000 * Pow2(k), 300000)]_vars

\* C24: a failed connect attempt is replaced at most once, whichever of its
\* close event and the manual fallback fires first: in a session nobody
\* stops, the connectors constructed are the first one plus at most one per
\* connector whose transport failed.
C24_OneReplacement ==
    LET Failed == {c \in Conns : \/ readyState[c] \in {"CLOSING", "CLOSED"}
                                 \/ promise[c] = "rejected"}
    IN nConn <= 1 + Cardinality(Failed)

\* C25: the close event of a transport stops its Connector's heartbeat and
\* clears its transport handle; it arms one call of the reconnect hook when
\* no disconnect was requested on that Connector (the handle is still
\* held), and none when one was (disconnect() has cleared the handle).
C25_CloseEvent ==
    [][ev'.type = "close" =>
        \A c \in Conns :
            (readyState[c] # "CLOSED" /\ readyState'[c] = "CLOSED")
            => /\ ~pingInterval'[c]
               /\ ~ws'[c]
               /\ IF ws[c]
                  THEN reconnectTimer[c] = 0 /\ reconnectTimer'[c] > 0
                  ELSE reconnectTimer'[c] = 0]_vars

C27_RegisterFirst ==
    [][\A c \in Conns :
        /\ (readyState[c] = "CONNECTING" /\ readyState'[c] = "OPEN")
           => /\ wire[c] = <<>>
              /\ Len(wire'[c]) = 1
        /\ readyState'[c] = "OPEN" => Len(wire'[c]) >= 1
        /\ \A k \in 1..Len(wire'[c]) :
              /\ (wire'[c][k].type = "register") <=> (k = 1)
              /\ k = 1 => wire'[c][k].text = "token"]_vars
C27_Witness ==
    \E c \in Conns : /\ origin[c] = "reconnect"
                     /\ Len(wire[c]) = 2
                     /\ wire[c][1].type = "register"
                     /\ wire[c][2].type = "control"

\* C28: a Push, Control or Reply frame is put on a transport only after a
\* Registered frame was received on that same transport, that is while the
\* heartbeat that its Registered frame started is running; the roster left
\* by an earlier connection does not count.
C28_NothingBeforeRegistered ==
    [][\A c \in Conns :
        (wire'[c] # wire[c]
         /\ wire'[c][Len(wire'[c])].type \in {"push", "control", "reply"})
        => pingInterval[c]]_vars

\* C29: a payload that is valid JSON but violates the frame schema (a JSON
\* value that is not an object, a Registered frame without its watch list)
\* raises exactly one invalid_frame error event and leaves the transport
\* open.
C29_SchemaViolation ==
    [][ev'.type = "frame" =>
        \A c \in Conns :
            \A p \in {NumberPayload, InFrame("registered", 0, "", "", "", NoWatches)} :
                Receive(c, p)
                => /\ Cardinality({k \in 1..Len(ev'.cbs) :
                                     ev'.cbs[k] = Cb("onError", "invalid_frame")}) = 1
                   /\ readyState'[c] = "OPEN"]_vars

\* C30: a frame whose type tag is unknown is dropped: none of the
\* registered, error, pong, unbound, message and control-ack callbacks is
\* invoked, the state of the runtime and of every Connector, the timers and
\* the wires stay as they were, the transport stays open and a pending
\* connect() stays pending.
C30_UnknownDropped ==
    [][ev'.type = "frame" =>
        \A c \in Conns :
            Receive(c, UnknownPayload)
            => /\ \A k \in 1..Len(ev'.cbs) : ev'.cbs[k] = Cb("onDebug", "")
               /\ UNCHANGED <<rtVars, connVars, timerVars, ioVars>>]_vars
C30_Witness ==
    /\ ev.type = "frame"
    /\ ev.cbs = <<Cb("onDebug", "")>>
    /\ \E c \in Conns : /\ readyState[c] = "OPEN"
                        /\ promise[c] = "pending"
                        /\ wire[c] = <<RegisterFrame>>

\* C31: a Message from IMEI i makes getImeiFromSessionKey return i for
\* prefix+i and for "session:"+prefix+i; every key keeps its IMEI across
\* further frames, closes and reconnects until disconnect(); from
\* disconnect() until the next connect() every key resolves to null.
C31_SessionKeys ==
    [][
        /\ \A c \in Conns, i \in Imeis, t \in Texts :
            (ev'.type = "frame" /\ ReceiveMessage(c, i, t))
            => LET key == getSessionKey(sessionKeyPrefix, i)
               IN /\ key \in DOMAIN sessionKeyToImei'
                  /\ sessionKeyToImei'[key] = i
                  /\ SessionAlias(key) \in DOMAIN sessionKeyToImei'
                  /\ sessionKeyToImei'[SessionAlias(key)] = i
        /\ ev'.type # "disconnect"
           => \A k \in DOMAIN sessionKeyToImei :
                 /\ k \in DOMAIN sessionKeyToImei'
                 /\ sessionKeyToImei'[k] = sessionKeyToImei[k]
        /\ disconnecting' => DOMAIN sessionKeyToImei' = {}
    ]_vars

\* C32: while a message handler is pending, a Registered frame still
\* replaces the roster and an Unbound frame still removes its IMEI, a
\* further Message starts a handler of its own under its own id next to
\* the pending ones, and the frame a completing handler sends is a Reply or
\* an Error with that handler's message id.
C32_ConcurrentFrames ==
    [][handlers # {} =>
        /\ \A c \in Conns, p \in HandlerPayloads :
              (ev'.type = "frame" /\ Receive(c, p))
              => /\ handlers' = handlers
                 /\ pairedWatches' = IF p.type = "registered" THEN p.watches
                                     ELSE FilterOut(pairedWatches, p.imei)
        /\ \A c \in Conns, i \in Imeis, t \in Texts :
              (ev'.type = "frame" /\ ReceiveMessage(c, i, t))
              => /\ handlers \subseteq handlers'
                 /\ Cardinality(handlers') = Cardinality(handlers) + 1
                 /\ \E h \in handlers' \ handlers : h.id = nMsg + 1 /\ h.imei = i
                 /\ \A h \in handlers : h.id # nMsg + 1
        /\ \A h \in handlers :
              (ev'.type \in {"handler_resolved", "handler_rejected"}
               /\ h \notin handlers')
              => /\ handlers' = handlers \ {h}
                 /\ \A c \in Conns :
                       \/ wire'[c] = wire[c]
                       \/ /\ Len(wire'[c]) = Len(wire[c]) + 1
                          /\ SubSeq(wire'[c], 1, Len(wire[c])) = wire[c]
                          /\ wire'[c][Len(wire'[c])].id = h.id
                          /\ wire'[c][Len(wire'[c])].type =
                                IF ev'.type = "handler_resolved" THEN "reply"
                                ELSE "error"]_vars
C32_Witness ==
    /\ ev.type = "handler_resolved"
    /\ Cardinality(handlers) = 1
    /\ \A h \in handlers : h.id = 1
    /\ pairedWatches = <<"860000035452457">>
    /\ \E c \in Conns : /\ Len(wire[c]) = 2
                        /\ wire[c][2].type = "reply"
                        /\ wire[c][2].id = 2

\* C35: a reconnect timer of a Connector of an earlier session, scheduled
\* before disconnect(), that fires after a later connect() leaves the
\* runtime's current Connector in place and constructs no Connector.
C35_OldTimerHarmless ==
    [][ev'.type = "reconnect_timer" =>
        \A c \in Conns :
            (/\ reconnectTimer[c] > 0
             /\ reconnectTimer'[c] = 0
             /\ \E d \in Conns : d > c /\ origin[d] = "connect")
            => /\ connector' = connector
               /\ nConn' = nConn]_vars

\* C36: a frame delivered on the transport of a Connector that is not the
\* runtime's current one, or after disconnect() was called, leaves the
\* roster and the session-key map as they were and starts no handler.
C36_StaleFramesIgnored ==
    [][ev'.type = "frame" =>
        \A c \in Conns :
            (/\ disconnecting \/ connector # c
             /\ \/ \E p \in RosterPayloads : Receive(c, p)
                \/ \E i \in Imeis, t \in Texts : ReceiveMessage(c, i, t))
            => UNCHANGED <<pairedWatches, sessionKeyToImei, handlers>>]_vars

\* C37: the failure of a reconnect attempt schedules at most one further
\* retry: neither its error event nor its close event raises the number of
\* pending timers by more than one, and its close event schedules nothing
\* when its rejection has already scheduled a retry.
C37_OneRetryPerFailure ==
    [][ev'.type \in {"error", "close"} =>
        LET Pending(rt, mt, kt) ==
                Cardinality({c \in Conns : rt[c] > 0}) + mt + kt
            Before == Pending(reconnectTimer, manualTimers, retryTimers)
            After == Pending(reconnectTimer', manualTimers', retryTimers')
        IN \A c \in Conns :
              (origin[c] = "reconnect" /\ (TransportError(c) \/ TransportClose(c)))
              => /\ After <= Before + 1
                 /\ After > Before => promise[c] # "rejected"]_vars

\* C38: a Message whose IMEI is not in the roster starts no handler and
\* records no session key, and after an Unbound frame for an IMEI no key of
\* the session-key map resolves to that IMEI.
C38_PairedOnly ==
    [][ev'.type = "frame" =>
        /\ \A c \in Conns, i \in Imeis, t \in Texts :
              (ReceiveMessage(c, i, t) /\ ~Contains(pairedWatches, i))
              => UNCHANGED <<handlers, sessionKeyToImei>>
        /\ \A c \in Conns, p \in RosterPayloads :
              (p.type = "unbound" /\ Receive(c, p))
              => \A k \in DOMAIN sessionKeyToImei' :
                    sessionKeyToImei'[k] # p.imei]_vars

\* C39: sendText and sendMedia return a delivery result only when exactly
\* one Push frame for the target was put on a wire, and they throw, with no
\* frame sent, when there is no runtime, when the runtime is not connected,
\* when the target is not in the roster, or when sendMedia is given a media
\* URL.
C39_ChannelDelivery ==
    [][ev'.type \in {"sendText", "sendMedia"} =>
        \A to \in Imeis, text \in Texts, url \in MediaUrls :
            (sendText(to, text) \/ sendMedia(to, text, url))
            => /\ ev'.result = "delivered"
                  => \E c \in Conns :
                        /\ Len(wire'[c]) = Len(wire[c]) + 1
                        /\ SubSeq(wire'[c], 1, Len(wire[c])) = wire[c]
                        /\ wire'[c][Len(wire'[c])].type = "push"
                        /\ wire'[c][Len(wire'[c])].imei = to
                        /\ wire'[c][Len(wire'[c])].text = text
                        /\ \A d \in Conns \ {c} : wire'[d] = wire[d]
               /\ (\/ ~started
                   \/ connector = NULL
                   \/ readyState[connector] # "OPEN"
                   \/ ~Contains(pairedWatches, to)
                   \/ url # "" /\ sendMedia(to, text, url))
                  => /\ ev'.result # "delivered"
                     /\ wire' = wire]_vars
C39_Witness ==
    /\ ev.type = "sendMedia"
    /\ ev.result = "delivered"
    /\ \E c \in Conns : /\ origin[c] = "reconnect"
                        /\ Len(wire[c]) = 2
                        /\ wire[c][2].type = "push"

\* C40: once the service has stopped a runtime, no transport of that
\* runtime opens and no frame is put on any of its wires, whatever timers,
\* transport events and frames come later.
C40_StoppedStaysSilent ==
    [][disconnecting =>
        /\ \A c \in Conns : readyState'[c] = "OPEN" => readyState[c] = "OPEN"
        /\ wire' = wire]_vars

\* C33: chatCompletion contacts the second path if and only if the first
\* path answered HTTP 405; any other failure of the first path is thrown
\* without a second fetch, and when both paths answer 405 the call throws.
C33_FallbackOn405 ==
    gw.phase # "idle" =>
        LET First405 == gw.responses[1].kind = "http" /\ gw.responses[1].status = "405"
            Second405 == gw.responses[2].kind = "http" /\ gw.responses[2].status = "405"
            Finished == gw.phase \in {"returned", "thrown"}
        IN /\ gw.fetched[1] = urls[1]
           /\ Len(gw.fetched) = 2 => First405 /\ gw.fetched[2] = urls[2]
           /\ (Finished /\ First405) => Len(gw.fetched) = 2
           /\ (Finished /\ gw.responses[1].kind # "ok" /\ ~First405)
              => gw.phase = "thrown"
           /\ (Finished /\ First405 /\ Second405) => gw.phase = "thrown"

\* C34: the text chatCompletion returns is the concatenation, in order, of
\* the delta contents of all data lines of the stream, however the stream
\* was cut into chunks and whether or not its last line ends with a newline.
C34_StreamText ==
    gw.phase = "returned" => gw.result = gw.expected

====
